---- MODULE Spec2Model ----
(***************************************************************************)
(* jtl-stats-processor: the command-line program of                        *)
(* src/golang/main.go (the build the Dockerfile produces) and of           *)
(* src/main.go (the earlier program in the repository root), as a state    *)
(* machine.  One run of main() is one behaviour: each action is one call   *)
(* main() makes, in program order.  The jtl library the program imports    *)
(* (github.com/blorticus-go/jtl) is modelled from spec.md.                 *)
(*                                                                         *)
(* Text is a sequence of tokens; the token "," is a comma, every other     *)
(* token is a comma-free piece of text.  A line of the summary is the      *)
(* sequence of the fields the format string writes, in order.              *)
(*                                                                         *)
(* A real number is <<"rat", n, d>> (n/d, d > 0), <<"sqrt", n, d>> (the    *)
(* square root of n/d), <<"inf">> or <<"nan">>.                            *)
(***************************************************************************)
EXTENDS Integers, Sequences, FiniteSets, TLC

VARIABLES
    build,        \* which main.go runs: "golang" (src/golang/main.go) or "root" (src/main.go)
    argv,         \* os.Args[1:]
    pc,           \* the call main() makes next
    cliArgs,      \* *CommandLineArguments
    jtlFile,      \* the rows of the opened JTL file and their timestamp schedule
    records,      \* jtlDataSource: the valid records, in input order
    rejected,     \* dataRowsThatCannotBeProcessed
    precomputed,  \* summarizer: the dimensions PreCompute... was given
    precomputeResult, \* "none" (not called), "ok" or "error"
    accessed,     \* summarizer: the dimensions an accessor was called for
    summaryText,  \* the lines GenerateSummaryOutputText returned
    stdout,       \* lines printed to STDOUT
    stderr,       \* lines printed to STDERR
    fs,           \* files created by the run: path -> content
    exitStatus    \* -1 while running, then the process exit status

vars == <<build, argv, pc, cliArgs, jtlFile, records, rejected, precomputed,
          precomputeResult, accessed, summaryText, stdout, stderr, fs, exitStatus>>

(***************************************************************************)
(* Bounds of the model.                                                    *)
(***************************************************************************)
MaxRows == 4
MaxPositional == 2

(***************************************************************************)
(* Small helpers.                                                          *)
(***************************************************************************)
Range(s) == {s[i] : i \in 1..Len(s)}

RECURSIVE SumSeq(_)
SumSeq(s) == IF s = <<>> THEN 0 ELSE Head(s) + SumSeq(Tail(s))

RECURSIVE Flatten(_)
Flatten(ss) == IF ss = <<>> THEN <<>> ELSE Head(ss) \o Flatten(Tail(ss))

Digit(n) == <<"0", "1", "2", "3", "4", "5", "6", "7", "8", "9">>[n + 1]

\* fmt's %d of a non-negative integer.
RECURSIVE Itoa(_)
Itoa(n) == IF n < 10 THEN <<Digit(n)>> ELSE Itoa(n \div 10) \o <<Digit(n % 10)>>

\* Floor of the square root of a natural number.
RECURSIVE ISqrtIn(_, _, _)
ISqrtIn(n, lo, hi) ==
    IF lo >= hi THEN lo
    ELSE LET mid == (lo + hi + 1) \div 2
         IN  IF mid * mid <= n THEN ISqrtIn(n, mid, hi) ELSE ISqrtIn(n, lo, mid - 1)

ISqrt(n) == ISqrtIn(n, 0, 46340)

(***************************************************************************)
(* The command line.  flag.Parse of the Go standard library, over the      *)
(* tokens a command line of this program is made of.                       *)
(***************************************************************************)
FlagTokens == {"-o", "-t", "-m", "-h"}

FlagName(tok) ==
    CASE tok = "-o" -> "o"
      [] tok = "-t" -> "t"
      [] tok = "-m" -> "m"
      [] tok = "-h" -> "h"

\* The flags the program defines before flag.Parse.
DefinedFlags(b) == IF b = "golang" THEN {"o", "t", "m"} ELSE {"o", "t"}

BoolFlags == {"m"}

NoArguments ==
    [PathToJtlSourceCsvFile |-> "",
     PathToSummaryOutputCsvFile |-> "",
     PathToDirectoryForTimestampFiles |-> "",
     IncludeMovingTPSSummary |-> FALSE]

SetFlag(args, name, value) ==
    CASE name = "o" -> [args EXCEPT !.PathToSummaryOutputCsvFile = value]
      [] name = "t" -> [args EXCEPT !.PathToDirectoryForTimestampFiles = value]
      [] name = "m" -> [args EXCEPT !.IncludeMovingTPSSummary = TRUE]

\* flag.Parse: flags are read up to the first argument that is no flag; the
\* arguments from there on are flag.Args().  status is "ok", "help" (-h, which
\* no build defines) or "error" (an undefined flag, a flag without its value).
RECURSIVE FlagParse(_, _, _)
FlagParse(b, a, args) ==
    IF a = <<>> \/ Head(a) \notin FlagTokens
    THEN [status |-> "ok", args |-> args, Args |-> a]
    ELSE LET name == FlagName(Head(a))
             rest == Tail(a)
         IN  IF name \notin DefinedFlags(b)
             THEN [status |-> IF name = "h" THEN "help" ELSE "error",
                   args |-> args, Args |-> rest]
             ELSE IF name \in BoolFlags
             THEN FlagParse(b, rest, SetFlag(args, name, TRUE))
             ELSE IF rest = <<>>
             THEN [status |-> "error", args |-> args, Args |-> rest]
             ELSE FlagParse(b, Tail(rest), SetFlag(args, name, Head(rest)))

\* flag.Arg(0): the first non-flag argument, "" when there is none.
FlagArg0(parsed) == IF parsed.Args = <<>> THEN "" ELSE Head(parsed.Args)

\* ProcessCommandLineOptions after a flag.Parse that returned: [err, args].
\* src/main.go has the two NArg checks commented out.
ProcessCommandLineOptions(b, parsed) ==
    IF b = "golang" /\ Len(parsed.Args) = 0
    THEN [err |-> "the path to the JTL source CSV file is required", args |-> NoArguments]
    ELSE IF b = "golang" /\ Len(parsed.Args) > 1
    THEN [err |-> "expected only one non-flag argument", args |-> NoArguments]
    ELSE [err |-> "",
          args |-> [parsed.args EXCEPT !.PathToJtlSourceCsvFile = FlagArg0(parsed)]]

\* The command lines of the model: options, then non-flag arguments, then
\* options again (the place the synopsis gives them).
Positionals(n) == [i \in 1..n |-> IF i = 1 THEN "jtl" ELSE "extra"]

OptO == {<<>>, <<"-o", "out">>}
OptT == {<<>>, <<"-t", "dir">>}
OptM == {<<>>, <<"-m">>}

OptionLists == {o \o t \o m : o \in OptO, t \in OptT, m \in OptM}

TrailingOptionLists ==
    {<<>>, <<"-m">>, <<"-o", "out">>, <<"-t", "dir">>, <<"-o", "out", "-t", "dir", "-m">>}

CommandLines ==
    {before \o Positionals(n) \o after :
        before \in OptionLists, n \in 0..MaxPositional, after \in TrailingOptionLists}
    \cup {<<"-h">>, <<"jtl", "-o">>, <<"-o">>}

(***************************************************************************)
(* The JTL file.  A row is a record template or a row that cannot be       *)
(* parsed; the timestamp of a row follows from its line and the file's     *)
(* schedule, so timestamps never decrease down the file.                   *)
(***************************************************************************)
RowKinds == {"A", "B", "bad"}

Schedules == {"spread", "same"}

TimestampOfRow(sched, i) ==
    IF sched = "same" THEN 1500
    ELSE 1000 + 500 * (i - 1) + (IF i >= 3 THEN 1600 ELSE 0)

Template(kind, ts) ==
    CASE kind = "A" ->
            [TimestampMs |-> ts, TimeToFirstByte |-> 1, TimeToLastByte |-> 3,
             ResultLabel |-> <<"GET /a">>, RequestURL |-> <<"http://h/a">>,
             ResponseCodeOrErrorMessage |-> <<"200">>,
             RequestBodySizeInBytes |-> 0, ResponseBytesReceived |-> 120,
             Succeeded |-> TRUE]
      [] kind = "B" ->
            [TimestampMs |-> ts, TimeToFirstByte |-> 4, TimeToLastByte |-> 9,
             ResultLabel |-> <<"POST /b">>, RequestURL |-> <<"http://h/b">>,
             ResponseCodeOrErrorMessage |-> <<"Connection reset", ",", " retried">>,
             RequestBodySizeInBytes |-> 7, ResponseBytesReceived |-> 0,
             Succeeded |-> FALSE]

JtlFiles ==
    {[rows |-> r, schedule |-> s] :
        r \in UNION {[1..n -> RowKinds] : n \in 0..MaxRows}, s \in Schedules}

NoFile == [rows |-> <<>>, schedule |-> "none"]

(***************************************************************************)
(* jtl.NewDataSourceFromCsv (spec.md 4.1): every row is parsed on its own; *)
(* a row that cannot be parsed yields one CsvDataRowError carrying its     *)
(* line number in the file (the header is line 1).                         *)
(***************************************************************************)
RECURSIVE ParseRows(_, _)
ParseRows(file, i) ==
    IF i > Len(file.rows) THEN [records |-> <<>>, errors |-> <<>>]
    ELSE LET rest == ParseRows(file, i + 1)
         IN  IF file.rows[i] = "bad"
             THEN [records |-> rest.records,
                   errors |-> <<[LineNumber |-> i + 1, Error |-> "cannot parse row"]>>
                              \o rest.errors]
             ELSE [records |-> <<Template(file.rows[i], TimestampOfRow(file.schedule, i))>>
                               \o rest.records,
                   errors |-> rest.errors]

NewDataSourceFromCsv(file) == ParseRows(file, 1)

(***************************************************************************)
(* The Descriptive Statistics Engine (spec.md 4.2) over a sequence of      *)
(* natural-number samples.                                                 *)
(***************************************************************************)
Rat(n, d) == <<"rat", n, d>>
NaN == <<"nan">>
Inf == <<"inf">>

RECURSIVE Insert(_, _)
Insert(x, s) ==
    IF s = <<>> THEN <<x>>
    ELSE IF x <= Head(s) THEN <<x>> \o s
    ELSE <<Head(s)>> \o Insert(x, Tail(s))

RECURSIVE SortAscending(_)
SortAscending(s) == IF s = <<>> THEN <<>> ELSE Insert(Head(s), SortAscending(Tail(s)))

\* The value at fractional rank p/100 * (N-1) of the sorted samples, linear
\* interpolation between the two order statistics around it.
Percentile(sorted, p) ==
    LET n == Len(sorted)
        whole == (p * (n - 1)) \div 100
        frac == (p * (n - 1)) % 100
        lo == sorted[whole + 1]
        hi == IF whole + 2 <= n THEN sorted[whole + 2] ELSE lo
    IN  Rat(100 * lo + frac * (hi - lo), 100)

ComputeStats(samples) ==
    LET n == Len(samples)
        sorted == SortAscending(samples)
        sum == SumSeq(samples)
        sumsq == SumSeq([i \in 1..n |-> samples[i] * samples[i]])
    IN  IF n = 0
        THEN [Mean |-> NaN, Median |-> NaN, PopulationStandardDeviation |-> NaN,
              Minimum |-> NaN, Maximum |-> NaN,
              ValueAt5thPercentile |-> NaN, ValueAt95thPercentile |-> NaN]
        ELSE [Mean |-> Rat(sum, n),
              Median |-> Percentile(sorted, 50),
              PopulationStandardDeviation |-> <<"sqrt", n * sumsq - sum * sum, n * n>>,
              Minimum |-> Rat(sorted[1], 1),
              Maximum |-> Rat(sorted[n], 1),
              ValueAt5thPercentile |-> Percentile(sorted, 5),
              ValueAt95thPercentile |-> Percentile(sorted, 95)]

(***************************************************************************)
(* Grouping (spec.md 4.4) and the Rate Engine (spec.md 4.3).               *)
(***************************************************************************)
Columns ==
    {"ResultLabel", "RequestURL", "ResponseCodeOrErrorMessage",
     "RequestBodySizeInBytes", "ResponseBytesReceived"}

MovingTransactionsPerSecond == "MovingTransactionsPerSecond"

\* The distinct values of a column, in the order they first occur.
RECURSIVE DistinctKeys(_, _, _)
DistinctKeys(recs, column, seen) ==
    IF recs = <<>> THEN <<>>
    ELSE LET k == Head(recs)[column]
         IN  IF k \in seen THEN DistinctKeys(Tail(recs), column, seen)
             ELSE <<k>> \o DistinctKeys(Tail(recs), column, seen \cup {k})

GroupOf(recs, column, key) ==
    LET Member(r) == r[column] = key IN SelectSeq(recs, Member)

Successful(recs) ==
    LET Ok(r) == r.Succeeded IN SelectSeq(recs, Ok)

\* KeyAsAString: a text column's value as it is, a size as its decimal digits.
KeyAsAString(column, key) ==
    IF column \in {"RequestBodySizeInBytes", "ResponseBytesReceived"}
    THEN Itoa(key) ELSE key

GroupSummary(group, keyText) ==
    [Key |-> keyText,
     NumberOfMatchingRequests |-> Len(group),
     NumberOfSuccessfulRequests |-> Len(Successful(group)),
     TimeToFirstByteStatistics |->
         ComputeStats([i \in 1..Len(group) |-> group[i].TimeToFirstByte]),
     TimeToLastByteStatistics |->
         ComputeStats([i \in 1..Len(group) |-> group[i].TimeToLastByte])]

FirstTimestamp(recs) == IF recs = <<>> THEN 0 ELSE recs[1].TimestampMs
LastTimestamp(recs) == IF recs = <<>> THEN 0 ELSE recs[Len(recs)].TimestampMs

\* count / ((last - first) / 1000), as floating-point division gives it.
AverageTPSRate(recs) ==
    LET span == LastTimestamp(recs) - FirstTimestamp(recs)
    IN  IF span > 0 THEN Rat(1000 * Len(recs), span)
        ELSE IF Len(recs) = 0 THEN NaN ELSE Inf

AggregateSummary(recs) ==
    [f \in DOMAIN GroupSummary(recs, <<>>) \cup
           {"AverageTPSRate", "TimestampOfFirstDataEntryAsUnixEpochMs",
            "TimestampOfLastDataEntryAsUnixEpochMs"} |->
        CASE f = "AverageTPSRate" -> AverageTPSRate(recs)
          [] f = "TimestampOfFirstDataEntryAsUnixEpochMs" -> FirstTimestamp(recs)
          [] f = "TimestampOfLastDataEntryAsUnixEpochMs" -> LastTimestamp(recs)
          [] OTHER -> GroupSummary(recs, <<>>)[f]]

\* The summaries of a column's groups, one per distinct value.
ColumnSummaries(recs, column) ==
    LET keys == DistinctKeys(recs, column, {})
    IN  [i \in 1..Len(keys) |->
            GroupSummary(GroupOf(recs, column, keys[i]), KeyAsAString(column, keys[i]))]

\* One sample per second from the first to the last, empty seconds included.
MovingTPSSeries(recs) ==
    LET startSec == FirstTimestamp(recs) \div 1000
        endSec == LastTimestamp(recs) \div 1000
    IN  [i \in 1..(endSec - startSec + 1) |->
            Cardinality({j \in 1..Len(recs) :
                            recs[j].TimestampMs \div 1000 = startSec + i - 1})]

MovingTPSStats(recs) ==
    IF recs = <<>> THEN ComputeStats(<<>>) ELSE ComputeStats(MovingTPSSeries(recs))

(***************************************************************************)
(* The Summarizer (spec.md 4.5, 7).  PreCompute fails on degenerate input: *)
(* no valid record, or a first and last timestamp that are equal.  An      *)
(* accessor of a dimension that was not precomputed returns nothing and    *)
(* an error.                                                               *)
(***************************************************************************)
PreComputeFails(recs) ==
    Len(recs) = 0 \/ FirstTimestamp(recs) = LastTimestamp(recs)

SummariesForTheColumn(recs, done, column) ==
    IF column \in done THEN ColumnSummaries(recs, column) ELSE <<>>

SummaryForTheMetaColumn(recs, done, column) ==
    IF column \in done THEN MovingTPSStats(recs) ELSE ComputeStats(<<>>)

(***************************************************************************)
(* Formatting.                                                             *)
(***************************************************************************)
\* fmt's %0.2f: the value rounded to hundredths, two digits after the point.
Hundredths(x) ==
    IF x[1] = "rat" THEN (200 * x[2] + x[3]) \div (2 * x[3])
    ELSE (ISqrt((40000 * x[2]) \div x[3]) + 1) \div 2

FormatFloat2(x) ==
    CASE x[1] = "nan" -> <<"NaN">>
      [] x[1] = "inf" -> <<"+Inf">>
      [] OTHER ->
            LET h == Hundredths(x)
            IN  Itoa(h \div 100) \o <<".">> \o <<Digit((h % 100) \div 10), Digit(h % 10)>>

\* The operands of the subtraction exchanged.
UintSubSwapped(a, b) == b - a

\* a - b in Go's unsigned arithmetic.  A difference that wraps around is
\* 2^64 - (b - a); it is held as the negative number a - b, which FormatUint
\* prints as that value.
UintSub(a, b) == a - b

FormatUint(v) == IF v >= 0 THEN Itoa(v) ELSE <<"2^64-">> \o Itoa(-v)

Dash == <<"-">>

(***************************************************************************)
(* The program's own functions.                                            *)
(***************************************************************************)
\* The warnings numbered by their place in the list, not by the row's line.
LogWithListIndex(descriptors) ==
    [i \in 1..Len(descriptors) |->
        <<"[WARNING] ignoring CSV source file line (">>
        \o Itoa(i) \o <<"): ", descriptors[i].Error>>]

\* LogAnyRowsThatCannotBeProcessed: the lines it prints to STDERR.
LogAnyRowsThatCannotBeProcessed(descriptors) ==
    [i \in 1..Len(descriptors) |->
        <<"[WARNING] ignoring CSV source file line (">>
        \o Itoa(descriptors[i].LineNumber) \o <<"): ", descriptors[i].Error>>]

\* The dimensions main() hands to PreComputeAggregateSummaryAndSummariesForColumns.
PreComputeColumns(includeMovingTPS) ==
    {"RequestURL", "ResponseCodeOrErrorMessage", "RequestBodySizeInBytes",
     "ResponseBytesReceived"}
    \cup (IF includeMovingTPS THEN {MovingTransactionsPerSecond} ELSE {})

\* The seven statistics of a block in the order the format string takes them:
\* the Mean is handed over twice, the second time in the place of the median.
StatFields(st) ==
    <<FormatFloat2(st.Mean), FormatFloat2(st.Mean),
      FormatFloat2(st.PopulationStandardDeviation),
      FormatFloat2(st.Minimum), FormatFloat2(st.Maximum),
      FormatFloat2(st.ValueAt5thPercentile), FormatFloat2(st.ValueAt95thPercentile)>>

MovingTPSFields(st) ==
    <<FormatFloat2(st.Mean), FormatFloat2(st.Median),
      FormatFloat2(st.PopulationStandardDeviation),
      FormatFloat2(st.Minimum), FormatFloat2(st.Maximum),
      FormatFloat2(st.ValueAt5thPercentile), FormatFloat2(st.ValueAt95thPercentile)>>

HeaderLine(includeMovingTPS) ==
    << <<"Category">>, <<"Key">>, <<"Total Requests Made">>, <<"Failed Requests">>,
       <<"TTFB Mean">>, <<"TTFB Median">>, <<"TTFB Stdev">>, <<"TTFB Minimum">>,
       <<"TTFB Maximum">>, <<"TTFB 5th Percentile">>, <<"TTFB 95th Percentile">>,
       <<"TTLB Mean">>, <<"TTLB Median">>, <<"TTLB Stdev">>, <<"TTLB Minimum">>,
       <<"TTLB Maximum">>, <<"TTLB 5th Percentile">>, <<"TTLB 95th Percentile">>,
       <<"Overall TPS">> >>
    \o (IF includeMovingTPS
        THEN << <<"Moving TPS Mean">>, <<"Moving TPS Median">>, <<"Moving TPS Stdev">>,
                <<"Moving TPS Minimum">>, <<"Moving TPS Maximum">>,
                <<"Moving TPS 5th Percentile">>, <<"Moving TPS 95th Percentile">> >>
        ELSE <<>>)

FailedRequests(s) ==
    UintSub(s.NumberOfMatchingRequests, s.NumberOfSuccessfulRequests)

\* A row without the seven dashes of the moving TPS columns.
GenerateSummaryTextWithoutMovingDashes(s, labelForCategory, includeDashesForMovingTPS) ==
    << <<labelForCategory>>, s.Key,
       FormatUint(s.NumberOfMatchingRequests), FormatUint(FailedRequests(s)) >>
    \o StatFields(s.TimeToFirstByteStatistics)
    \o StatFields(s.TimeToLastByteStatistics)
    \o <<Dash>>

\* A row whose column 19 is formatted like the aggregate's, from a rate of zero.
GenerateSummaryTextWithRate(s, labelForCategory, includeDashesForMovingTPS) ==
    << <<labelForCategory>>, s.Key,
       FormatUint(s.NumberOfMatchingRequests), FormatUint(FailedRequests(s)) >>
    \o StatFields(s.TimeToFirstByteStatistics)
    \o StatFields(s.TimeToLastByteStatistics)
    \o <<FormatFloat2(Rat(0, 1))>>
    \o (IF includeDashesForMovingTPS THEN [i \in 1..7 |-> Dash] ELSE <<>>)

GenerateSummaryTextForColumnValue(s, labelForCategory, includeDashesForMovingTPS) ==
    << <<labelForCategory>>, s.Key,
       FormatUint(s.NumberOfMatchingRequests), FormatUint(FailedRequests(s)) >>
    \o StatFields(s.TimeToFirstByteStatistics)
    \o StatFields(s.TimeToLastByteStatistics)
    \o <<Dash>>
    \o (IF includeDashesForMovingTPS THEN [i \in 1..7 |-> Dash] ELSE <<>>)

AggregateLine(recs, done, includeMovingTPS) ==
    LET aggregateStats == AggregateSummary(recs)
    IN  << <<"Aggregate">>, <<>>,
           FormatUint(aggregateStats.NumberOfMatchingRequests),
           FormatUint(FailedRequests(aggregateStats)) >>
        \o StatFields(aggregateStats.TimeToFirstByteStatistics)
        \o StatFields(aggregateStats.TimeToLastByteStatistics)
        \o <<FormatFloat2(aggregateStats.AverageTPSRate)>>
        \o (IF includeMovingTPS
            THEN MovingTPSFields(SummaryForTheMetaColumn(recs, done, MovingTransactionsPerSecond))
            ELSE <<>>)

\* The categories written in another order: the rows by size before the rows
\* by response code.
CategoryColumnsSizesFirst ==
    << <<"method+uripath", "ResultLabel">>,
       <<"responseSizeInBytes", "ResponseBytesReceived">>,
       <<"responseCode", "ResponseCodeOrErrorMessage">>,
       <<"requestBodyInBytes", "RequestBodySizeInBytes">> >>

\* The column GenerateSummaryOutputText reads for each category of rows, in
\* the order it writes them.
CategoryColumns ==
    << <<"method+uripath", "ResultLabel">>,
       <<"responseCode", "ResponseCodeOrErrorMessage">>,
       <<"responseSizeInBytes", "ResponseBytesReceived">>,
       <<"requestBodyInBytes", "RequestBodySizeInBytes">> >>

CategoryLines(recs, done, category, includeMovingTPS) ==
    LET stats == SummariesForTheColumn(recs, done, category[2])
    IN  [i \in 1..Len(stats) |->
            GenerateSummaryTextForColumnValue(stats[i], category[1], includeMovingTPS)]

GenerateSummaryOutputText(recs, done, includeMovingTPS) ==
    <<HeaderLine(includeMovingTPS), AggregateLine(recs, done, includeMovingTPS)>>
    \o Flatten([c \in 1..Len(CategoryColumns) |->
                   CategoryLines(recs, done, CategoryColumns[c], includeMovingTPS)])

\* The dimensions GenerateSummaryOutputText calls an accessor for.
DimensionsRead(includeMovingTPS) ==
    {CategoryColumns[c][2] : c \in 1..Len(CategoryColumns)}
    \cup (IF includeMovingTPS THEN {MovingTransactionsPerSecond} ELSE {})

\* The timestamp rounded to the nearest second.
TimestampRoundedToSeconds(ms) == (ms + 500) \div 1000

\* The text of one line as the format strings write it: the fields with a
\* comma between them, no field quoted or escaped.
RECURSIVE LineText(_)
LineText(fields) ==
    IF fields = <<>> THEN <<>>
    ELSE IF Len(fields) = 1 THEN Head(fields)
    ELSE Head(fields) \o <<",">> \o LineText(Tail(fields))

\* WriteTimestampFiles: the second a millisecond timestamp lies in.
TimestampInSeconds(ms) == ms \div 1000

StartTs(dir) == <<dir, "/start.ts">>
EndTs(dir) == <<dir, "/end.ts">>

(***************************************************************************)
(* main().  pc names the call main() makes next; when the process exits,   *)
(* exitStatus is set and pc stays at the call that ended it ("return"      *)
(* once main() has returned).                                              *)
(***************************************************************************)
Init ==
    /\ build \in {"golang", "root"}
    /\ argv \in CommandLines
    /\ pc = "ProcessCommandLineOptions"
    /\ cliArgs = NoArguments
    /\ jtlFile = NoFile
    /\ records = <<>>
    /\ rejected = <<>>
    /\ precomputed = {}
    /\ precomputeResult = "none"
    /\ accessed = {}
    /\ summaryText = <<>>
    /\ stdout = <<>>
    /\ stderr = <<>>
    /\ fs = <<>>
    /\ exitStatus = -1

At(call) == pc = call /\ exitStatus = -1

\* DieIfError(err) with err # nil: the message on STDERR, exit status 1.
DieIfError(err) ==
    /\ stderr' = Append(stderr, <<err>>)
    /\ exitStatus' = 1

\* cliArgs, err := ProcessCommandLineOptions(); DieIfError(err)
\* flag.Parse itself ends the process on -h (status 0) and on a flag error
\* (status 2), after printing the usage.
MainProcessCommandLineOptions ==
    /\ At("ProcessCommandLineOptions")
    /\ LET parsed == FlagParse(build, argv, NoArguments)
           result == ProcessCommandLineOptions(build, parsed)
       IN  IF parsed.status # "ok"
           THEN /\ stderr' = Append(stderr, <<"usage">>)
                /\ exitStatus' = IF parsed.status = "help" THEN 0 ELSE 2
                /\ UNCHANGED <<pc, cliArgs>>
           ELSE IF result.err # ""
           THEN /\ DieIfError(result.err)
                /\ UNCHANGED <<pc, cliArgs>>
           ELSE /\ cliArgs' = result.args
                /\ pc' = "Open"
                /\ UNCHANGED <<stderr, exitStatus>>
    /\ UNCHANGED <<build, argv, jtlFile, records, rejected, precomputed,
                   precomputeResult, accessed, summaryText, stdout, fs>>

\* jtlFile, err := os.Open(cliArgs.PathToJtlSourceCsvFile); DieIfError(err)
\* The empty path never opens; any other path may or may not.
MainOpen ==
    /\ At("Open")
    /\ \/ /\ DieIfError("open: no such file or directory")
          /\ UNCHANGED <<pc, jtlFile>>
       \/ /\ cliArgs.PathToJtlSourceCsvFile # ""
          /\ jtlFile' \in JtlFiles
          /\ pc' = "NewDataSourceFromCsv"
          /\ UNCHANGED <<stderr, exitStatus>>
    /\ UNCHANGED <<build, argv, cliArgs, records, rejected, precomputed,
                   precomputeResult, accessed, summaryText, stdout, fs>>

\* jtlDataSource, dataRowsThatCannotBeProcessed, fatalError :=
\*     jtl.NewDataSourceFromCsv(jtlFile); DieIfError(fatalError)
MainNewDataSourceFromCsv ==
    /\ At("NewDataSourceFromCsv")
    /\ \/ /\ DieIfError("fatal error reading the CSV source")
          /\ UNCHANGED <<pc, records, rejected>>
       \/ /\ records' = NewDataSourceFromCsv(jtlFile).records
          /\ rejected' = NewDataSourceFromCsv(jtlFile).errors
          /\ pc' = "LogAnyRowsThatCannotBeProcessed"
          /\ UNCHANGED <<stderr, exitStatus>>
    /\ UNCHANGED <<build, argv, cliArgs, jtlFile, precomputed,
                   precomputeResult, accessed, summaryText, stdout, fs>>

\* LogAnyRowsThatCannotBeProcessed(dataRowsThatCannotBeProcessed)
MainLogAnyRowsThatCannotBeProcessed ==
    /\ At("LogAnyRowsThatCannotBeProcessed")
    /\ stderr' = stderr \o LogAnyRowsThatCannotBeProcessed(rejected)
    /\ pc' = "PreCompute"
    /\ UNCHANGED <<build, argv, cliArgs, jtlFile, records, rejected, precomputed,
                   precomputeResult, accessed, summaryText, stdout, fs, exitStatus>>

\* main() going on after PreCompute... returned an error.
MainPreComputeIgnoringError ==
    /\ At("PreCompute")
    /\ precomputeResult' = IF PreComputeFails(records) THEN "error" ELSE "ok"
    /\ precomputed' = PreComputeColumns(cliArgs.IncludeMovingTPSSummary)
    /\ pc' = "WriteTimestampFiles"
    /\ UNCHANGED <<build, argv, cliArgs, jtlFile, records, rejected,
                   accessed, summaryText, stdout, stderr, fs, exitStatus>>

\* summarizer := jtl.NewSummarizerForDataSource(jtlDataSource)
\* err = summarizer.PreComputeAggregateSummaryAndSummariesForColumns(...)
\* DieIfError(err)
MainPreCompute ==
    /\ At("PreCompute")
    /\ IF PreComputeFails(records)
       THEN /\ precomputeResult' = "error"
            /\ DieIfError("cannot compute the summaries")
            /\ UNCHANGED <<pc, precomputed>>
       ELSE /\ precomputeResult' = "ok"
            /\ precomputed' = PreComputeColumns(cliArgs.IncludeMovingTPSSummary)
            /\ pc' = "WriteTimestampFiles"
            /\ UNCHANGED <<stderr, exitStatus>>
    /\ UNCHANGED <<build, argv, cliArgs, jtlFile, records, rejected,
                   accessed, summaryText, stdout, fs>>

\* What WriteTimestampFiles leaves in the file system when it fails at `step`
\* ("none": it does not fail).  os.Create leaves an empty file.
TimestampFilesAfter(files, dir, recs, step) ==
    LET aggregateStats == AggregateSummary(recs)
        start == Itoa(TimestampInSeconds(aggregateStats.TimestampOfFirstDataEntryAsUnixEpochMs))
        end == Itoa(TimestampInSeconds(aggregateStats.TimestampOfLastDataEntryAsUnixEpochMs))
    IN  CASE step = "create start.ts" -> files
          [] step = "create end.ts" -> (StartTs(dir) :> <<>>) @@ files
          [] step = "write start.ts" -> (StartTs(dir) :> <<>>) @@ (EndTs(dir) :> <<>>) @@ files
          [] step = "write end.ts" -> (StartTs(dir) :> start) @@ (EndTs(dir) :> <<>>) @@ files
          [] step = "none" -> (StartTs(dir) :> start) @@ (EndTs(dir) :> end) @@ files

WriteTimestampFilesSteps ==
    {"create start.ts", "create end.ts", "write start.ts", "write end.ts", "none"}

\* if cliArgs.PathToDirectoryForTimestampFiles != "" {
\*     err := WriteTimestampFiles(...); DieIfError(err) }
MainWriteTimestampFiles ==
    /\ At("WriteTimestampFiles")
    /\ IF cliArgs.PathToDirectoryForTimestampFiles # ""
       THEN \E failsAt \in WriteTimestampFilesSteps :
               /\ fs' = TimestampFilesAfter(fs, cliArgs.PathToDirectoryForTimestampFiles,
                                            records, failsAt)
               /\ IF failsAt = "none"
                  THEN pc' = "GenerateSummaryOutputText" /\ UNCHANGED <<stderr, exitStatus>>
                  ELSE DieIfError("on attempt to write to " \o failsAt) /\ UNCHANGED pc
       ELSE /\ pc' = "GenerateSummaryOutputText"
            /\ UNCHANGED <<fs, stderr, exitStatus>>
    /\ UNCHANGED <<build, argv, cliArgs, jtlFile, records, rejected, precomputed,
                   precomputeResult, accessed, summaryText, stdout>>

\* summaryText := GenerateSummaryOutputText(summarizer, cliArgs.IncludeMovingTPSSummary)
MainGenerateSummaryOutputText ==
    /\ At("GenerateSummaryOutputText")
    /\ summaryText' = GenerateSummaryOutputText(records, precomputed,
                                                cliArgs.IncludeMovingTPSSummary)
    /\ accessed' = DimensionsRead(cliArgs.IncludeMovingTPSSummary)
    /\ pc' = "Output"
    /\ UNCHANGED <<build, argv, cliArgs, jtlFile, records, rejected, precomputed,
                   precomputeResult, stdout, stderr, fs, exitStatus>>

\* What WriteSummaryToFile leaves in the file system.
SummaryFileAfter(files, path, text, step) ==
    CASE step = "create" -> files
      [] step = "write" -> (<<path>> :> <<>>) @@ files
      [] step = "none" -> (<<path>> :> text) @@ files

WriteSummaryToFileSteps == {"create", "write", "none"}

\* main() printing the summary although it went to the file.
MainOutputAlsoPrints ==
    /\ At("Output")
    /\ stdout' = stdout \o summaryText
    /\ IF cliArgs.PathToSummaryOutputCsvFile # ""
       THEN \E failsAt \in WriteSummaryToFileSteps :
               /\ fs' = SummaryFileAfter(fs, cliArgs.PathToSummaryOutputCsvFile,
                                         summaryText, failsAt)
               /\ IF failsAt = "none"
                  THEN pc' = "return" /\ exitStatus' = 0 /\ UNCHANGED stderr
                  ELSE DieIfError("on attempt to write to the output file") /\ UNCHANGED pc
       ELSE /\ pc' = "return"
            /\ exitStatus' = 0
            /\ UNCHANGED <<fs, stderr>>
    /\ UNCHANGED <<build, argv, cliArgs, jtlFile, records, rejected, precomputed,
                   precomputeResult, accessed, summaryText>>

\* if cliArgs.PathToSummaryOutputCsvFile != "" {
\*     err := WriteSummaryToFile(...); DieIfError(err)
\* } else { fmt.Print(summaryText) }
MainOutput ==
    /\ At("Output")
    /\ IF cliArgs.PathToSummaryOutputCsvFile # ""
       THEN \E failsAt \in WriteSummaryToFileSteps :
               /\ fs' = SummaryFileAfter(fs, cliArgs.PathToSummaryOutputCsvFile,
                                         summaryText, failsAt)
               /\ IF failsAt = "none"
                  THEN pc' = "return" /\ exitStatus' = 0 /\ UNCHANGED stderr
                  ELSE DieIfError("on attempt to write to the output file") /\ UNCHANGED pc
               /\ UNCHANGED stdout
       ELSE /\ stdout' = stdout \o summaryText
            /\ pc' = "return"
            /\ exitStatus' = 0
            /\ UNCHANGED <<fs, stderr>>
    /\ UNCHANGED <<build, argv, cliArgs, jtlFile, records, rejected, precomputed,
                   precomputeResult, accessed, summaryText>>

Next ==
    \/ MainProcessCommandLineOptions
    \/ MainOpen
    \/ MainNewDataSourceFromCsv
    \/ MainLogAnyRowsThatCannotBeProcessed
    \/ MainPreCompute
    \/ MainWriteTimestampFiles
    \/ MainGenerateSummaryOutputText
    \/ MainOutput

Spec == Init /\ [][Next]_vars


(***************************************************************************)
(* Vocabulary of the properties.                                           *)
(***************************************************************************)
Exited == exitStatus # -1

\* main() has got past the named call.
CallsInOrder ==
    <<"ProcessCommandLineOptions", "Open", "NewDataSourceFromCsv",
      "LogAnyRowsThatCannotBeProcessed", "PreCompute", "WriteTimestampFiles",
      "GenerateSummaryOutputText", "Output", "return">>

Position(call) == CHOOSE i \in 1..Len(CallsInOrder) : CallsInOrder[i] = call

Past(call) == Position(pc) > Position(call)

OutPath == <<cliArgs.PathToSummaryOutputCsvFile>>

TimestampPaths(dir) == {StartTs(dir), EndTs(dir)}

SummaryInFile == OutPath \in DOMAIN fs /\ fs[OutPath] # <<>>

SummaryEmitted == stdout # <<>> \/ SummaryInFile

\* The summary as the user receives it: what is on STDOUT, then what is in
\* the output file.
EmittedLines == stdout \o (IF OutPath \in DOMAIN fs THEN fs[OutPath] ELSE <<>>)

\* The rows of the generated summary below the header.
DataLines == SubSeq(summaryText, 2, Len(summaryText))

IsAggregate(line) == line[1] = <<"Aggregate">>

ColumnOfCategory(label) ==
    (CHOOSE c \in Range(CategoryColumns) : c[1] = label)[2]

\* The records a summary row is about.
RowGroup(line) ==
    IF IsAggregate(line) THEN records
    ELSE LET column == ColumnOfCategory(line[1][1])
             Member(r) == KeyAsAString(column, r[column]) = line[2]
         IN  SelectSeq(records, Member)

Samples(group, field) == [i \in 1..Len(group) |-> group[i][field]]

LinesOfCategory(label) ==
    {i \in 1..Len(DataLines) : DataLines[i][1] = <<label>>}

\* The line numbers of the rows of the file that cannot be parsed, in order.
RECURSIVE BadLines(_, _)
BadLines(rows, i) ==
    IF i > Len(rows) THEN <<>>
    ELSE (IF rows[i] = "bad" THEN <<i + 1>> ELSE <<>>) \o BadLines(rows, i + 1)

IsWarning(line) == line # <<>> /\ line[1] = "[WARNING] ignoring CSV source file line ("

(***************************************************************************)
(* C1.  Every dimension GenerateSummaryOutputText reads with an accessor   *)
(* was handed to PreCompute... before, and the summary holds one           *)
(* 'method+uripath' row for every distinct request method+URI-path.        *)
(* The code precomputes RequestURL and reads ResultLabel.                  *)
(***************************************************************************)
C1_ReadDimensionsWerePrecomputed ==
    /\ accessed \subseteq precomputed
    /\ summaryText # <<>> =>
          Cardinality(LinesOfCategory("method+uripath"))
              = Cardinality({records[i].ResultLabel : i \in 1..Len(records)})

(***************************************************************************)
(* C2.  In every summary row, column 5 is the time-to-first-byte mean,     *)
(* column 6 the time-to-first-byte median, column 12 the time-to-last-byte *)
(* mean and column 13 the time-to-last-byte median of the row's group.     *)
(* The code writes the mean in columns 6 and 13.                           *)
(***************************************************************************)
C2_MedianColumns ==
    \A i \in 1..Len(DataLines) :
        LET line == DataLines[i]
            ttfb == ComputeStats(Samples(RowGroup(line), "TimeToFirstByte"))
            ttlb == ComputeStats(Samples(RowGroup(line), "TimeToLastByte"))
        IN  /\ line[5] = FormatFloat2(ttfb.Mean)
            /\ line[6] = FormatFloat2(ttfb.Median)
            /\ line[12] = FormatFloat2(ttlb.Mean)
            /\ line[13] = FormatFloat2(ttlb.Median)

SynopsisForm(a) == a # <<>> /\ Head(a) = "jtl" /\ Tail(a) \in TrailingOptionLists

C4_SynopsisFormAccepted ==
    SynopsisForm(argv) /\ ~At("ProcessCommandLineOptions") =>
        /\ pc # "ProcessCommandLineOptions"
        /\ cliArgs.PathToJtlSourceCsvFile = Head(argv)
        /\ "-o" \in Range(argv) => cliArgs.PathToSummaryOutputCsvFile = "out"
        /\ "-t" \in Range(argv) => cliArgs.PathToDirectoryForTimestampFiles = "dir"
        /\ build = "golang" /\ "-m" \in Range(argv) => cliArgs.IncludeMovingTPSSummary

(***************************************************************************)
(* C5.  When PreCompute... returns an error the program exits with status  *)
(* 1, its message on STDERR, and has written no timestamp file and no      *)
(* summary; no emitted aggregate row carries an undefined overall rate.    *)
(***************************************************************************)
C5_DegenerateInputIsSignalled ==
    /\ precomputeResult = "error" =>
          /\ exitStatus = 1
          /\ pc = "PreCompute"
          /\ stderr # <<>> /\ ~IsWarning(stderr[Len(stderr)])
          /\ DOMAIN fs = {}
          /\ stdout = <<>>
          /\ summaryText = <<>>
    /\ PreComputeFails(records) /\ Past("LogAnyRowsThatCannotBeProcessed") =>
          ~SummaryEmitted /\ (Exited => exitStatus = 1)
    /\ \A i \in 1..Len(EmittedLines) :
          IsAggregate(EmittedLines[i]) =>
             EmittedLines[i][19] \notin {FormatFloat2(NaN), FormatFloat2(Inf)}

C5_Witness ==
    /\ precomputeResult = "error"
    /\ exitStatus = 1
    /\ Len(records) = 1
    /\ cliArgs.PathToDirectoryForTimestampFiles # ""

(***************************************************************************)
(* C6.  With -m the summary has seven more columns, 20 to 26: on the       *)
(* aggregate row the moving TPS mean, median, population stdev, minimum,   *)
(* maximum, 5th and 95th percentile, on every other row '-'.  Without -m   *)
(* the moving-rate dimension is neither precomputed nor read and no line   *)
(* has more than 19 columns.                                               *)
(***************************************************************************)
C6_MovingTPSColumns ==
    /\ cliArgs.IncludeMovingTPSSummary /\ summaryText # <<>> =>
          LET st == ComputeStats(MovingTPSSeries(records))
          IN  /\ MovingTransactionsPerSecond \in precomputed
              /\ \A i \in 1..Len(summaryText) : Len(summaryText[i]) = 26
              /\ \A i \in 1..Len(DataLines) :
                    IF IsAggregate(DataLines[i])
                    THEN /\ SubSeq(DataLines[i], 20, 26) =
                               <<FormatFloat2(st.Mean), FormatFloat2(st.Median),
                                 FormatFloat2(st.PopulationStandardDeviation),
                                 FormatFloat2(st.Minimum), FormatFloat2(st.Maximum),
                                 FormatFloat2(st.ValueAt5thPercentile),
                                 FormatFloat2(st.ValueAt95thPercentile)>>
                         /\ \A k \in 20..26 : DataLines[i][k] \notin {Dash, FormatFloat2(NaN)}
                    ELSE \A k \in 20..26 : DataLines[i][k] = Dash
    /\ ~cliArgs.IncludeMovingTPSSummary =>
          /\ MovingTransactionsPerSecond \notin precomputed \cup accessed
          /\ \A i \in 1..Len(summaryText) : Len(summaryText[i]) = 19
    /\ MovingTransactionsPerSecond \in precomputed \cup accessed =>
          build = "golang" /\ "-m" \in Range(argv)

C6_Witness ==
    /\ cliArgs.IncludeMovingTPSSummary
    /\ Len(DataLines) >= 3
    /\ \E i \in 1..Len(DataLines) : ~IsAggregate(DataLines[i]) /\ DataLines[i][26] = Dash
    /\ DataLines[1][20] # DataLines[1][21]

(***************************************************************************)
(* C7.  Column 19 of the aggregate row is the average TPS rate, a number;  *)
(* column 19 of every other row is '-'.  The aggregate row is the first    *)
(* row below the header and the only one.                                  *)
(***************************************************************************)
C7_OverallTPSOnlyOnAggregate ==
    summaryText # <<>> =>
        /\ Len(DataLines) >= 1
        /\ \A i \in 1..Len(DataLines) :
              IF i = 1
              THEN /\ IsAggregate(DataLines[i])
                   /\ DataLines[i][19] =
                         FormatFloat2(Rat(1000 * Len(records),
                                          records[Len(records)].TimestampMs
                                              - records[1].TimestampMs))
                   /\ DataLines[i][19] \notin {Dash, FormatFloat2(NaN), FormatFloat2(Inf)}
              ELSE /\ ~IsAggregate(DataLines[i])
                   /\ DataLines[i][19] = Dash

C7_Witness ==
    /\ Len(DataLines) >= 4
    /\ DataLines[1][19] = <<"1", ".", "1", "5">>
    /\ DataLines[2][19] = Dash

(***************************************************************************)
(* C8.  The run creates start.ts and end.ts only when -t is given, and     *)
(* only in the directory -t names; once WriteTimestampFiles has returned   *)
(* without error under -t, start.ts holds floor(T_first / 1000) and end.ts *)
(* floor(T_last / 1000) in decimal, T_first and T_last the timestamps of   *)
(* the first and the last record; without -t it is not called.             *)
(***************************************************************************)
IsFloorSeconds(text, ms) ==
    \E k \in 0..(MaxRows + 4) : 1000 * k <= ms /\ ms < 1000 * (k + 1) /\ text = Itoa(k)

C8_TimestampFiles ==
    LET dir == cliArgs.PathToDirectoryForTimestampFiles
    IN  /\ DOMAIN fs \subseteq
              (IF dir # "" THEN TimestampPaths(dir) ELSE {})
              \cup (IF cliArgs.PathToSummaryOutputCsvFile # "" THEN {OutPath} ELSE {})
        /\ dir # "" /\ Past("WriteTimestampFiles") =>
              /\ TimestampPaths(dir) \subseteq DOMAIN fs
              /\ IsFloorSeconds(fs[StartTs(dir)], records[1].TimestampMs)
              /\ IsFloorSeconds(fs[EndTs(dir)], records[Len(records)].TimestampMs)

C8_Witness ==
    /\ exitStatus = 0
    /\ cliArgs.PathToDirectoryForTimestampFiles = "dir"
    /\ records[1].TimestampMs = 1000
    /\ records[Len(records)].TimestampMs = 3600
    /\ fs[StartTs("dir")] = <<"1">>
    /\ fs[EndTs("dir")] = <<"3">>

(***************************************************************************)
(* C9.  A run that ends with status 0 has put the whole summary in exactly *)
(* one place: on STDOUT when -o is not given, and then no output file      *)
(* exists; in the file -o names when it is given, and then nothing is on   *)
(* STDOUT.                                                                 *)
(***************************************************************************)
C9_OneDestination ==
    exitStatus = 0 /\ pc = "return" =>
        /\ summaryText # <<>>
        /\ IF cliArgs.PathToSummaryOutputCsvFile = ""
           THEN /\ stdout = summaryText
                /\ DOMAIN fs \subseteq TimestampPaths(cliArgs.PathToDirectoryForTimestampFiles)
           ELSE /\ stdout = <<>>
                /\ OutPath \in DOMAIN fs
                /\ fs[OutPath] = summaryText

C9_Witness ==
    /\ exitStatus = 0
    /\ pc = "return"
    /\ cliArgs.PathToSummaryOutputCsvFile = "out"
    /\ stdout = <<>>
    /\ Len(fs[<<"out">>]) >= 4

(***************************************************************************)
(* C10.  In every summary row column 3 is the number of records of the     *)
(* row's group and column 4 the number of those whose succeeded flag is    *)
(* false: the unsigned difference of the two counters does not wrap, and   *)
(* 0 <= failed <= total.                                                   *)
(***************************************************************************)
C10_FailedRequests ==
    \A i \in 1..Len(DataLines) :
        LET group == RowGroup(DataLines[i])
            failed == Cardinality({j \in 1..Len(group) : ~group[j].Succeeded})
            summary == GroupSummary(group, DataLines[i][2])
        IN  /\ DataLines[i][3] = Itoa(Len(group))
            /\ DataLines[i][4] = Itoa(failed)
            /\ 0 <= failed /\ failed <= Len(group)
            /\ UintSub(summary.NumberOfMatchingRequests,
                       summary.NumberOfSuccessfulRequests) >= 0

C10_Witness ==
    /\ Len(DataLines) >= 3
    /\ DataLines[1][3] = <<"3">> /\ DataLines[1][4] = <<"1">>
    /\ \E i \in 2..Len(DataLines) : DataLines[i][3] = <<"1">> /\ DataLines[i][4] = <<"1">>
    /\ \E i \in 2..Len(DataLines) : DataLines[i][3] = <<"2">> /\ DataLines[i][4] = <<"0">>

(***************************************************************************)
(* C11.  The summary text is laid out in one fixed order: the header line, *)
(* the aggregate row, then the method+uripath rows, the responseCode rows, *)
(* the responseSizeInBytes rows and the requestBodyInBytes rows, the rows  *)
(* of one dimension in the order the summarizer returned them; what is     *)
(* emitted is that text, line for line.  Nothing in the run chooses, so    *)
(* the same input gives the same text.                                     *)
(***************************************************************************)
DimensionOrder ==
    <<"method+uripath", "responseCode", "responseSizeInBytes", "requestBodyInBytes">>

DimensionRank(label) ==
    CHOOSE k \in 1..Len(DimensionOrder) : DimensionOrder[k] = label

DimensionColumn(label) ==
    CASE label = "method+uripath" -> "ResultLabel"
      [] label = "responseCode" -> "ResponseCodeOrErrorMessage"
      [] label = "responseSizeInBytes" -> "ResponseBytesReceived"
      [] label = "requestBodyInBytes" -> "RequestBodySizeInBytes"

\* The keys of the rows of one category, in the order of the text.
KeysOfCategory(label) ==
    LET Is(line) == line[1] = <<label>>
        rows == SelectSeq(DataLines, Is)
    IN  [i \in 1..Len(rows) |-> rows[i][2]]

C11_FixedRowOrder ==
    summaryText # <<>> =>
        /\ summaryText[1] = HeaderLine(cliArgs.IncludeMovingTPSSummary)
        /\ Len(summaryText) >= 2
        /\ IsAggregate(summaryText[2])
        /\ \A i \in 2..Len(DataLines) :
              /\ DataLines[i][1][1] \in Range(DimensionOrder)
              /\ \A j \in 2..Len(DataLines) :
                    i < j => DimensionRank(DataLines[i][1][1])
                                 <= DimensionRank(DataLines[j][1][1])
        /\ \A k \in 1..Len(DimensionOrder) :
              LET returned == SummariesForTheColumn(records, precomputed,
                                                    DimensionColumn(DimensionOrder[k]))
              IN  KeysOfCategory(DimensionOrder[k])
                      = [i \in 1..Len(returned) |-> returned[i].Key]
        /\ SummaryEmitted /\ exitStatus = 0 => EmittedLines = summaryText

C11_Witness ==
    /\ exitStatus = 0
    /\ Len(DataLines) = 7
    /\ EmittedLines = summaryText
    /\ DataLines[2][1] = <<"responseCode">> /\ DataLines[2][2] = <<"200">>
    /\ DataLines[3][1] = <<"responseCode">> /\ DataLines[3][2] # <<"200">>
    /\ DataLines[4][1] = <<"responseSizeInBytes">>
    /\ DataLines[6][1] = <<"requestBodyInBytes">>
    /\ DataLines[7][2] = <<"7">>

(***************************************************************************)
(* C12.  Every line of the summary, read as comma-separated text, has as   *)
(* many fields as the header line: 19 without -m, 26 with -m, whatever     *)
(* text the key of the row is.  The key is written unquoted, so a key      *)
(* that holds a comma adds a field.                                        *)
(***************************************************************************)
CommaSeparatedFields(text) == 1 + Cardinality({i \in 1..Len(text) : text[i] = ","})

C12_SameFieldCountAsHeader ==
    \A i \in 1..Len(summaryText) :
        /\ CommaSeparatedFields(LineText(summaryText[i]))
               = CommaSeparatedFields(LineText(summaryText[1]))
        /\ CommaSeparatedFields(LineText(summaryText[i]))
               = (IF cliArgs.IncludeMovingTPSSummary THEN 26 ELSE 19)

(***************************************************************************)
(* C13.  When flag.Parse has returned and the command line holds no        *)
(* non-flag argument, or more than one, the run ends with a message on     *)
(* STDERR and status 1 before the JTL file is read: nothing is ingested,   *)
(* no file is created and nothing is printed to STDOUT.  src/main.go has   *)
(* the two checks commented out and goes on with the first argument.       *)
(***************************************************************************)
C13_ExactlyOneNonFlagArgument ==
    LET parsed == FlagParse(build, argv, NoArguments)
    IN  parsed.status = "ok" /\ Len(parsed.Args) # 1 =>
            /\ pc \in {"ProcessCommandLineOptions", "Open"}
            /\ Exited => exitStatus = 1 /\ stderr # <<>>
            /\ jtlFile = NoFile
            /\ records = <<>>
            /\ DOMAIN fs = {}
            /\ stdout = <<>>
            /\ summaryText = <<>>

====
